---- MODULE Spec2Model ----
(***************************************************************************)
(* Streaming-message reconciliation of the chat client: the chat store     *)
(* (chatSlice), the direct-mode stream reader (useStreamingMessage and     *)
(* MessageInput), the compare-mode stream reader (CompareMessageInput) and *)
(* the WebSocket hook (useWebSocket).  Text is modelled as sequences of    *)
(* one-character strings so that prefix tests, slicing, splitting and      *)
(* unescaping are computed as the code computes them.                      *)
(***************************************************************************)
EXTENDS Integers, Sequences, FiniteSets, TLC

(***************************************************************************)
(* Bounds of the model.                                                    *)
(***************************************************************************)
MaxTurns == 2          \* turns submitted in a run
MaxCompareTurns == 1   \* compare turns submitted in a run
MaxLines == 3          \* lines the server sends in a run, direct mode
MaxCompareLines == 5   \* lines the server sends in a run, compare mode
MaxSockets == 3        \* WebSocket objects reachable at a time
MaxCalls == 1          \* calls of the hook's functions by its user in a run
MaxEvents == 2         \* socket messages received in a run
MaxCycles == 2         \* cap of the count of token refreshes since the last open
MaxText == 3           \* length of the text the sender escapes
MaxResponse == 4       \* lines of a response body given as a whole
MaxRequests == 3       \* requests the HTTP client sends in a run

(***************************************************************************)
(* Characters and JavaScript string primitives.                            *)
(***************************************************************************)
BS == "\\"
NL == "\n"
Q  == "\""

Min(a, b) == IF a < b THEN a ELSE b
Max(a, b) == IF a > b THEN a ELSE b

StartsWith(s, p) == Len(s) >= Len(p) /\ SubSeq(s, 1, Len(p)) = p

\* String.prototype.slice(b, e): 0-based, end exclusive, negative indices
\* count from the end, out-of-range indices are clamped.
JsSlice(s, b, e) ==
  LET n  == Len(s)
      bb == IF b < 0 THEN Max(n + b, 0) ELSE Min(b, n)
      ee == IF e < 0 THEN Max(n + e, 0) ELSE Min(e, n)
  IN  IF bb >= ee THEN <<>> ELSE SubSeq(s, bb + 1, ee)

JsSliceFrom(s, b) == JsSlice(s, b, Len(s))

\* String.prototype.replace with a global literal pattern: leftmost,
\* non-overlapping matches, scanning left to right.
RECURSIVE ReplaceAll(_, _, _)
ReplaceAll(s, pat, rep) ==
  IF s = <<>> THEN <<>>
  ELSE IF StartsWith(s, pat)
       THEN rep \o ReplaceAll(SubSeq(s, Len(pat) + 1, Len(s)), pat, rep)
       ELSE <<Head(s)>> \o ReplaceAll(Tail(s), pat, rep)

\* String.prototype.split('\n'): the pieces between consecutive line
\* terminators; always at least one element.
SplitLines(s) ==
  LET nls    == {i \in 1..Len(s) : s[i] = NL}
      nth(j) == IF j = 0 THEN 0
                ELSE IF j > Cardinality(nls) THEN Len(s) + 1
                ELSE CHOOSE i \in nls : Cardinality({x \in nls : x < i}) = j - 1
  IN  [j \in 1..(Cardinality(nls) + 1) |-> SubSeq(s, nth(j - 1) + 1, nth(j) - 1)]

\* String.prototype.trim() is empty: only white space (here: newline, space).
TrimIsEmpty(s) == \A i \in 1..Len(s) : s[i] \in {NL, " "}

RECURSIVE Concat(_)
Concat(ss) == IF ss = <<>> THEN <<>> ELSE Head(ss) \o Concat(Tail(ss))

\* unescapeChunk: every double backslash becomes one backslash, then every
\* backslash-n pair becomes a newline.
unescapeChunk(chunk) ==
  ReplaceAll(ReplaceAll(chunk, <<BS, BS>>, <<BS>>), <<BS, "n">>, <<NL>>)

\* The sender's escaping: every backslash becomes two backslashes and every
\* newline becomes a backslash followed by the letter n.
RECURSIVE escape(_)
escape(s) ==
  IF s = <<>> THEN <<>>
  ELSE (IF Head(s) = BS THEN <<BS, BS>>
        ELSE IF Head(s) = NL THEN <<BS, "n">>
        ELSE <<Head(s)>>) \o escape(Tail(s))

\* The texts a sender may hold: backslashes, newlines and letters.
Alphabet == {BS, NL, "n", "a"}
Texts == UNION {[1..k -> Alphabet] : k \in 0..MaxText}

(***************************************************************************)
(* Wire texts.                                                             *)
(***************************************************************************)
PrefA0 == <<"a", "0", ":">>
PrefB0 == <<"b", "0", ":">>
PrefAd == <<"a", "d", ":">>
PrefBd == <<"b", "d", ":">>

\* {"finishReason":"stop"}
StopBody ==
  <<"{", Q, "f", "i", "n", "i", "s", "h", "R", "e", "a", "s", "o", "n", Q,
    ":", Q, "s", "t", "o", "p", Q, "}">>

\* {"finishReason":"error","error":"boom"}
ErrorBody ==
  <<"{", Q, "f", "i", "n", "i", "s", "h", "R", "e", "a", "s", "o", "n", Q,
    ":", Q, "e", "r", "r", "o", "r", Q, ",", Q, "e", "r", "r", "o", "r", Q,
    ":", Q, "b", "o", "o", "m", Q, "}">>

\* JSON.parse of a completion body, on the bodies the server side of the
\* model can send; any other text makes JSON.parse throw (ok = FALSE).
JSONParse(text) ==
  IF text = StopBody THEN [ok |-> TRUE, finishReason |-> "stop", error |-> ""]
  ELSE IF text = ErrorBody
       THEN [ok |-> TRUE, finishReason |-> "error", error |-> "boom"]
       ELSE [ok |-> FALSE, finishReason |-> "", error |-> ""]

\* A content line as the readers expect it: prefix, one delimiter character,
\* the escaped text, one delimiter character.
Frame(pref, c) == pref \o <<Q>> \o c \o <<Q>>

Hello == <<"h", "e", "l", "l", "o">>
Hi    == <<"h", "i">>

(***************************************************************************)
(* State.                                                                  *)
(***************************************************************************)
VARIABLES
  messages,           \* chat.messages: session id -> list of messages
  streamingMessages,  \* chat.streamingMessages: session id -> id -> buffer
  activeSession,      \* chat.activeSession (its id, or "null")
  toasts,             \* user-visible notifications raised so far, in order
  nextId,             \* source of fresh message ids (uuidv4)
  isStreaming,        \* the input component's isStreaming state
  pc,                 \* position of the running stream function
  ids,                \* ids drawn by the running stream function
  wire,               \* rest of a line split by the last fragment
  emitted,            \* number of lines the server has sent so far
  buffer,             \* the reader's carried partial line
  modelStatus,        \* streamComparison's modelStatus
  srv,                \* compare mode: what the server has sent per participant
  seen,               \* history: lines the reader loop has iterated over
  turns,              \* number of turns submitted so far
  sockets,            \* the WebSockets created and not yet unreachable
  wsCurrent,          \* ws.current: index into sockets, 0 for null
  isConnected,        \* the hook's isConnected state
  reconnectTimer,     \* reconnectTimer.current: a timer id, 0 for null
  timers,             \* pending setTimeout(connect, delay) timers
  reconnectAttempts,  \* reconnectAttempts.current
  refreshing,         \* sockets whose close handler awaits refreshAccessToken()
  user,               \* identity of auth.user
  mounted,            \* the component using the hook is mounted
  callerOff,          \* history: the caller's last call was disconnect()
  calls,              \* number of caller actions so far
  wsEvents,           \* number of socket messages received so far
  closureEmpty,       \* the current connect sees messages[activeSession.id] empty
  cycles,             \* history: token refreshes started since the last open
  authFailed,         \* history: a token refresh failed and the caller has not acted since
  rebound,            \* history: the user changed while the hook held an open socket
  background,         \* the stream function of an input component unmounted while it ran
  plain,              \* the text the sender escapes into its content lines
  response,           \* the lines of the response body the server sends for the turn
  isRefreshing,       \* the HTTP client's isRefreshing
  refreshSubscribers, \* the HTTP client's refreshSubscribers: the requests that wait
  requests,           \* the HTTP client's requests: where each stands, its _retry flag
  navigated           \* window.location.href has been assigned: the document is left

storeVars  == <<messages, streamingMessages, activeSession>>
streamVars == <<toasts, nextId, isStreaming, pc, ids, wire,
                emitted, buffer, modelStatus, srv, seen, turns>>
wsVars == <<sockets, wsCurrent, isConnected, reconnectTimer, timers,
            reconnectAttempts, refreshing, user, mounted, callerOff, calls,
            wsEvents, closureEmpty, cycles, authFailed, rebound>>
envVars == <<plain, response>>
clientVars == <<isRefreshing, refreshSubscribers, requests, navigated>>
vars == <<storeVars, streamVars, wsVars, background, envVars, clientVars>>

Sess == "s1"

(***************************************************************************)
(* The chat store (chatSlice reducers).  A store value is the pair of      *)
(* messages and streamingMessages; a missing key is a key outside DOMAIN.  *)
(***************************************************************************)
Lookup(f, k, d) == IF k \in DOMAIN f THEN f[k] ELSE d
Put(f, k, v)    == [x \in (DOMAIN f) \cup {k} |-> IF x = k THEN v ELSE f[x]]
Remove(f, k)    == [x \in (DOMAIN f) \ {k} |-> f[x]]
NoKeys          == [x \in {} |-> {}]

Store == [messages |-> messages, streamingMessages |-> streamingMessages]

UserMessage(id, content) ==
  [id |-> id, role |-> "user", content |-> content, participant |-> "none"]

AssistantMessage(id, content, participant) ==
  [id |-> id, role |-> "assistant", content |-> content,
   participant |-> participant]

addMessage(st, sessionId, message) ==
  [st EXCEPT !.messages =
     Put(@, sessionId, Append(Lookup(@, sessionId, <<>>), message))]

updateStreamingMessage(st, sessionId, messageId, chunk, isComplete, participant) ==
  LET bufs  == Lookup(st.streamingMessages, sessionId, NoKeys)
      old   == Lookup(bufs, messageId, [content |-> <<>>, isComplete |-> FALSE,
                                        participant |-> "none"])
      new   == [content |-> old.content \o chunk, isComplete |-> isComplete,
                participant |-> participant]
  IN  IF isComplete
      THEN [messages |->
              Put(st.messages, sessionId,
                  Append(Lookup(st.messages, sessionId, <<>>),
                         AssistantMessage(messageId, new.content, participant))),
            streamingMessages |->
              Put(st.streamingMessages, sessionId, Remove(bufs, messageId))]
      ELSE [messages |-> st.messages,
            streamingMessages |->
              Put(st.streamingMessages, sessionId, Put(bufs, messageId, new))]

setSessionState(st, sessionId, msgs) ==
  [st EXCEPT !.messages = Put(@, sessionId, msgs)]

\* Views used by the properties.
Msgs(sessionId) == Lookup(messages, sessionId, <<>>)
Bufs(sessionId) == Lookup(streamingMessages, sessionId, NoKeys)
Entries(sessionId, messageId) ==
  {i \in 1..Len(Msgs(sessionId)) : Msgs(sessionId)[i].id = messageId}

(***************************************************************************)
(* Direct mode: MessageInput.handleSubmit and streamMessage.               *)
(***************************************************************************)
ChunkTexts == {Hi, <<BS, BS>>, <<"n">>, <<BS, "n">>}

DirectServerLines ==
  {Frame(PrefA0, c) : c \in ChunkTexts}
    \cup {PrefA0 \o Hi, PrefAd \o StopBody, PrefAd \o ErrorBody}

NoIds == [userMessageId |-> 0, aiMessageIdA |-> 0, aiMessageIdB |-> 0]
NoStatus == [a |-> [complete |-> FALSE, error |-> "null"],
             b |-> [complete |-> FALSE, error |-> "null"]]

\* Variant: the raw text is accumulated and unescaped as a whole when the
\* completion line arrives.
DirectLine_unescapeWhole(st, sessionId, aiMessageId, line) ==
  IF StartsWith(line, PrefA0)
  THEN updateStreamingMessage(st, sessionId, aiMessageId,
                              JsSlice(line, 4, -1), FALSE, "a")
  ELSE IF StartsWith(line, PrefAd)
       THEN LET bufs == Lookup(st.streamingMessages, sessionId, NoKeys)
                raw  == Lookup(bufs, aiMessageId, [content |-> <<>>]).content
                st0  == [st EXCEPT !.streamingMessages =
                           Put(@, sessionId, Remove(bufs, aiMessageId))]
            IN  updateStreamingMessage(st0, sessionId, aiMessageId,
                                       unescapeChunk(raw), TRUE, "a")
       ELSE st

\* Variant: the text is taken from right after the three-character prefix.
DirectLine_slice3(st, sessionId, aiMessageId, line) ==
  IF StartsWith(line, PrefA0)
  THEN updateStreamingMessage(st, sessionId, aiMessageId,
                              unescapeChunk(JsSlice(line, 3, -1)), FALSE, "a")
  ELSE IF StartsWith(line, PrefAd)
       THEN updateStreamingMessage(st, sessionId, aiMessageId, <<>>, TRUE, "a")
       ELSE st

\* Variant: a line with any other prefix is taken as text of the buffer.
DirectLine_appendsOther(st, sessionId, aiMessageId, line) ==
  IF StartsWith(line, PrefA0)
  THEN updateStreamingMessage(st, sessionId, aiMessageId,
                              unescapeChunk(JsSlice(line, 4, -1)), FALSE, "a")
  ELSE IF StartsWith(line, PrefAd)
       THEN updateStreamingMessage(st, sessionId, aiMessageId, <<>>, TRUE, "a")
       ELSE updateStreamingMessage(st, sessionId, aiMessageId, line, FALSE, "a")

\* One iteration of streamMessage's for-loop.
DirectLine(st, sessionId, aiMessageId, line) ==
  IF StartsWith(line, PrefA0)
  THEN updateStreamingMessage(st, sessionId, aiMessageId,
                              unescapeChunk(JsSlice(line, 4, -1)), FALSE, "a")
  ELSE IF StartsWith(line, PrefAd)
       THEN updateStreamingMessage(st, sessionId, aiMessageId, <<>>, TRUE, "a")
       ELSE st

RECURSIVE DirectLines(_, _, _, _)
DirectLines(st, sessionId, aiMessageId, lines) ==
  IF lines = <<>> THEN st
  ELSE DirectLines(DirectLine(st, sessionId, aiMessageId, Head(lines)),
                   sessionId, aiMessageId, Tail(lines))

\* handleSubmit up to the await of fetch: the user message is added and the
\* assistant buffer is opened.
HandleSubmit(content) ==
  /\ ~isStreaming
  /\ pc = "idle"
  /\ turns < MaxTurns
  /\ LET userMessageId == nextId
         aiMessageId   == nextId + 1
         st1 == addMessage(Store, Sess, UserMessage(userMessageId, content))
         st2 == updateStreamingMessage(st1, Sess, aiMessageId, <<>>, FALSE, "a")
     IN  /\ messages' = st2.messages
         /\ streamingMessages' = st2.streamingMessages
         /\ ids' = [NoIds EXCEPT !.userMessageId = userMessageId,
                                 !.aiMessageIdA = aiMessageId]
  /\ nextId' = nextId + 2
  /\ isStreaming' = TRUE
  /\ pc' = "fetch"
  /\ turns' = turns + 1
  /\ wire' = <<>>
  /\ buffer' = <<>>
  /\ seen' = <<>>
  /\ UNCHANGED <<activeSession, toasts, emitted, modelStatus, srv,
                 wsVars, background, plain, response, clientVars>>

\* fetch rejects or the response is not ok: streamMessage rethrows and
\* handleSubmit reports the failure.
FetchFail ==
  /\ pc = "fetch"
  /\ toasts' = Append(toasts, "Failed to send message")
  /\ isStreaming' = FALSE
  /\ pc' = "idle"
  /\ UNCHANGED <<storeVars, nextId, ids, wire, emitted, buffer, modelStatus,
                 srv, seen, turns,
                 wsVars, background, plain, response, clientVars>>

FetchOk ==
  /\ pc = "fetch"
  /\ pc' = "read"
  /\ UNCHANGED <<storeVars, toasts, nextId, isStreaming, ids, wire, emitted,
                 buffer, modelStatus, srv, seen, turns,
                 wsVars, background, plain, response, clientVars>>

\* A fragment handed out by reader.read(): the rest of a line split by the
\* previous fragment, then the given lines; when split, the fragment ends two
\* characters into the last line (inside its prefix) and the rest of that
\* line stays on the wire.  Each line is split at most once.
FragmentText(lines, split) ==
  LET n    == Len(lines)
      full == [i \in 1..n |-> lines[i] \o <<NL>>]
  IN  IF split
      THEN wire \o Concat(SubSeq(full, 1, n - 1)) \o SubSeq(lines[n], 1, 2)
      ELSE wire \o Concat(full)

FragmentRest(lines, split) ==
  IF split
  THEN SubSeq(lines[Len(lines)], 3, Len(lines[Len(lines)])) \o <<NL>>
  ELSE <<>>

Fragments(LineSet) ==
  {<<l>> : l \in LineSet} \cup {<<l1, l2>> : l1 \in LineSet, l2 \in LineSet}

\* The part of a fragment's text that the reader loop iterates over, and
\* the partial last line it carries over.
CompleteLines(text) ==
  LET parts == SplitLines(text) IN SubSeq(parts, 1, Len(parts) - 1)

CarriedLine(text) ==
  LET parts == SplitLines(text) IN parts[Len(parts)]

\* reader.read() yields a fragment: the complete lines are processed and the
\* partial last line is carried over.
DirectRead(lines, split) ==
  /\ pc = "read"
  /\ emitted + Len(lines) <= MaxLines
  /\ LET text == buffer \o FragmentText(lines, split)
         st   == DirectLines(Store, Sess, ids.aiMessageIdA, CompleteLines(text))
     IN  /\ buffer' = CarriedLine(text)
         /\ messages' = st.messages
         /\ streamingMessages' = st.streamingMessages
         /\ seen' = seen \o CompleteLines(text)
  /\ wire' = FragmentRest(lines, split)
  /\ emitted' = emitted + Len(lines)
  /\ UNCHANGED <<activeSession, toasts, nextId, isStreaming, pc, ids,
                 modelStatus, srv, turns,
                 wsVars, background, plain, response, clientVars>>

\* The rest of a split line arrives on its own.
DirectReadRest ==
  /\ pc = "read"
  /\ wire # <<>>
  /\ LET text == buffer \o wire
         st   == DirectLines(Store, Sess, ids.aiMessageIdA, CompleteLines(text))
     IN  /\ buffer' = CarriedLine(text)
         /\ messages' = st.messages
         /\ streamingMessages' = st.streamingMessages
         /\ seen' = seen \o CompleteLines(text)
  /\ wire' = <<>>
  /\ UNCHANGED <<activeSession, toasts, nextId, isStreaming, pc, ids, emitted,
                 modelStatus, srv, turns,
                 wsVars, background, plain, response, clientVars>>

\* reader.read() reports done (the server ended the body after a whole
\* line): the loop ends and handleSubmit re-enables the input.
DirectReadDone ==
  /\ pc = "read"
  /\ wire = <<>>
  /\ isStreaming' = FALSE
  /\ pc' = "idle"
  /\ buffer' = <<>>
  /\ UNCHANGED <<storeVars, toasts, nextId, ids, wire, emitted, modelStatus,
                 srv, seen, turns,
                 wsVars, background, plain, response, clientVars>>

\* reader.read() rejects (the connection dropped).
DirectReadError ==
  /\ pc = "read"
  /\ toasts' = Append(toasts, "Failed to send message")
  /\ isStreaming' = FALSE
  /\ pc' = "idle"
  /\ wire' = <<>>
  /\ buffer' = <<>>
  /\ UNCHANGED <<storeVars, nextId, ids, emitted, modelStatus, srv, seen, turns,
                 wsVars, background, plain, response, clientVars>>

(***************************************************************************)
(* Session selection (ChatSidebar, ChatWindow).  Selecting a compare-mode  *)
(* session replaces MessageInput by CompareView; selecting the direct-mode *)
(* session again mounts a new MessageInput, whose isStreaming is false.    *)
(* The stream function the old component had started goes on: it keeps its *)
(* session id, its message id and its carried partial line.                *)
(***************************************************************************)
OtherSess == "s2"
Sessions == {Sess, OtherSess}

NoStream == [phase |-> "none", aiMessageId |-> 0, buffer |-> <<>>]

\* handleSelectSession: setActiveSession(session).
SelectSession(s) ==
  /\ activeSession # s
  /\ activeSession' = s
  /\ IF activeSession = Sess /\ pc # "idle"
     THEN /\ background = NoStream
          /\ background' = [phase |-> pc, aiMessageId |-> ids.aiMessageIdA,
                            buffer |-> buffer \o wire]
          /\ pc' = "idle"
          /\ isStreaming' = FALSE
          /\ buffer' = <<>>
          /\ wire' = <<>>
     ELSE /\ isStreaming' = IF activeSession = Sess THEN FALSE ELSE isStreaming
          /\ UNCHANGED <<background, pc, buffer, wire>>
  /\ UNCHANGED <<messages, streamingMessages, toasts, nextId, ids, emitted,
                 modelStatus, srv, seen, turns, wsVars, plain, response, clientVars>>

\* The submit of the mounted MessageInput.
SubmitActive(content) ==
  /\ activeSession = Sess
  /\ HandleSubmit(content)

\* The fetch of the stream function left running resolves.
BackgroundFetchOk ==
  /\ background.phase = "fetch"
  /\ background' = [background EXCEPT !.phase = "read"]
  /\ UNCHANGED <<storeVars, streamVars, wsVars, plain, response, clientVars>>

\* Variant: the stream function left running writes to the session that is
\* active when a line arrives.
BackgroundRead_activeSession(lines) ==
  /\ background.phase = "read"
  /\ emitted + Len(lines) <= MaxLines
  /\ LET full == [i \in 1..Len(lines) |-> lines[i] \o <<NL>>]
         text == background.buffer \o Concat(full)
         st   == DirectLines(Store, activeSession, background.aiMessageId,
                             CompleteLines(text))
     IN  /\ background' = [background EXCEPT !.buffer = CarriedLine(text)]
         /\ messages' = st.messages
         /\ streamingMessages' = st.streamingMessages
  /\ emitted' = emitted + Len(lines)
  /\ UNCHANGED <<activeSession, toasts, nextId, isStreaming, pc, ids, wire,
                 buffer, modelStatus, srv, seen, turns, wsVars, plain,
                 response, clientVars>>

\* reader.read() of the stream function left running yields a fragment of
\* whole lines.
BackgroundRead(lines) ==
  /\ background.phase = "read"
  /\ emitted + Len(lines) <= MaxLines
  /\ LET full == [i \in 1..Len(lines) |-> lines[i] \o <<NL>>]
         text == background.buffer \o Concat(full)
         st   == DirectLines(Store, Sess, background.aiMessageId,
                             CompleteLines(text))
     IN  /\ background' = [background EXCEPT !.buffer = CarriedLine(text)]
         /\ messages' = st.messages
         /\ streamingMessages' = st.streamingMessages
  /\ emitted' = emitted + Len(lines)
  /\ UNCHANGED <<activeSession, toasts, nextId, isStreaming, pc, ids, wire,
                 buffer, modelStatus, srv, seen, turns, wsVars, plain,
                 response, clientVars>>

\* reader.read() of the stream function left running reports done.
BackgroundDone ==
  /\ background.phase = "read"
  /\ background' = NoStream
  /\ UNCHANGED <<storeVars, streamVars, wsVars, plain, response, clientVars>>

\* The fetch or a read of the stream function left running rejects: the
\* handleSubmit that awaits it reports the failure.
BackgroundFail ==
  /\ background.phase \in {"fetch", "read"}
  /\ background' = NoStream
  /\ toasts' = Append(toasts, "Failed to send message")
  /\ UNCHANGED <<storeVars, nextId, isStreaming, pc, ids, wire, emitted, buffer,
                 modelStatus, srv, seen, turns, wsVars, plain, response, clientVars>>

(***************************************************************************)
(* Compare mode: CompareMessageInput.handleSubmit and streamComparison.    *)
(* The server streams the text of each participant chunk by chunk, in any  *)
(* interleaving, and ends each participant with one completion line.       *)
(***************************************************************************)
He  == <<"H", "e">>
Llo == <<"l", "l", "o">>

ServerText == [a |-> <<He, Llo>>, b |-> <<Hi>>]
Pref0 == [a |-> PrefA0, b |-> PrefB0]
PrefD == [a |-> PrefAd, b |-> PrefBd]
NoSrv == [a |-> [sent |-> 0, fin |-> FALSE], b |-> [sent |-> 0, fin |-> FALSE]]

\* Lines the server may send next, each with the server state after it.
SrvNext(sv) ==
  UNION {
    (IF ~sv[p].fin /\ sv[p].sent < Len(ServerText[p])
     THEN {[line |-> Frame(Pref0[p], ServerText[p][sv[p].sent + 1]),
            sv   |-> [sv EXCEPT ![p].sent = @ + 1]]}
     ELSE {})
    \cup
    (IF ~sv[p].fin
     THEN {[line |-> PrefD[p] \o body, sv |-> [sv EXCEPT ![p].fin = TRUE]] :
             body \in {StopBody, ErrorBody}}
     ELSE {})
    : p \in {"a", "b"}}

\* Fragments of one or two lines the server may send from state sv.
SrvFragments(sv) ==
  {[lines |-> <<x.line>>, sv |-> x.sv] : x \in SrvNext(sv)}
    \cup UNION {{[lines |-> <<x.line, y.line>>, sv |-> y.sv] : y \in SrvNext(x.sv)} :
                  x \in SrvNext(sv)}

\* Variant: an error completion of one participant ends the whole turn.
CompareDone_abortTurn(cs, sessionId, aiMessageId, p, line) ==
  LET data == JSONParse(JsSliceFrom(line, 3))
  IN  IF ~data.ok THEN cs
      ELSE IF data.finishReason = "stop"
      THEN [cs EXCEPT
              !.modelStatus[p].complete = TRUE,
              !.st = updateStreamingMessage(cs.st, sessionId, aiMessageId,
                                            <<>>, TRUE, p)]
      ELSE IF data.finishReason = "error"
      THEN [cs EXCEPT
              !.modelStatus.a.complete = TRUE,
              !.modelStatus.b.complete = TRUE,
              !.modelStatus[p].error = data.error,
              !.toasts = Append(@, IF p = "a" THEN "Model A error: boom"
                                              ELSE "Model B error: boom")]
      ELSE cs

\* The body of a completion branch of streamComparison's for-loop, for
\* participant p with message id aiMessageId.
CompareDone(cs, sessionId, aiMessageId, p, line) ==
  LET data == JSONParse(JsSliceFrom(line, 3))
  IN  IF ~data.ok THEN cs
      ELSE IF data.finishReason = "stop"
      THEN [cs EXCEPT
              !.modelStatus[p].complete = TRUE,
              !.st = updateStreamingMessage(cs.st, sessionId, aiMessageId,
                                            <<>>, TRUE, p)]
      ELSE IF data.finishReason = "error"
      THEN [cs EXCEPT
              !.modelStatus[p].complete = TRUE,
              !.modelStatus[p].error = data.error,
              !.toasts = Append(@, IF p = "a" THEN "Model A error: boom"
                                              ELSE "Model B error: boom")]
      ELSE cs

\* Variant: every content line is appended to participant a's buffer.
CompareLine_oneBuffer(cs, sessionId, tids, line) ==
  IF TrimIsEmpty(line) THEN cs
  ELSE IF StartsWith(line, PrefA0) \/ StartsWith(line, PrefB0)
  THEN [cs EXCEPT !.st =
          updateStreamingMessage(cs.st, sessionId, tids.aiMessageIdA,
                                 unescapeChunk(JsSlice(line, 4, -1)), FALSE, "a")]
  ELSE IF StartsWith(line, PrefAd)
  THEN CompareDone(cs, sessionId, tids.aiMessageIdA, "a", line)
  ELSE IF StartsWith(line, PrefBd)
  THEN CompareDone(cs, sessionId, tids.aiMessageIdB, "b", line)
  ELSE cs

\* One iteration of streamComparison's for-loop; cs carries the store, the
\* modelStatus object and the notifications.
CompareLine(cs, sessionId, tids, line) ==
  IF TrimIsEmpty(line) THEN cs
  ELSE IF StartsWith(line, PrefA0)
  THEN [cs EXCEPT !.st =
          updateStreamingMessage(cs.st, sessionId, tids.aiMessageIdA,
                                 unescapeChunk(JsSlice(line, 4, -1)), FALSE, "a")]
  ELSE IF StartsWith(line, PrefB0)
  THEN [cs EXCEPT !.st =
          updateStreamingMessage(cs.st, sessionId, tids.aiMessageIdB,
                                 unescapeChunk(JsSlice(line, 4, -1)), FALSE, "b")]
  ELSE IF StartsWith(line, PrefAd)
  THEN CompareDone(cs, sessionId, tids.aiMessageIdA, "a", line)
  ELSE IF StartsWith(line, PrefBd)
  THEN CompareDone(cs, sessionId, tids.aiMessageIdB, "b", line)
  ELSE cs

RECURSIVE CompareLines(_, _, _, _)
CompareLines(cs, sessionId, tids, lines) ==
  IF lines = <<>> THEN cs
  ELSE CompareLines(CompareLine(cs, sessionId, tids, Head(lines)),
                    sessionId, tids, Tail(lines))

\* handleSubmit and streamComparison up to the await of fetch.
CompareSubmit(content) ==
  /\ ~isStreaming
  /\ pc = "idle"
  /\ turns < MaxCompareTurns
  /\ LET tids == [userMessageId |-> nextId, aiMessageIdA |-> nextId + 1,
                  aiMessageIdB |-> nextId + 2]
         st1 == addMessage(Store, Sess, UserMessage(tids.userMessageId, content))
         st2 == updateStreamingMessage(st1, Sess, tids.aiMessageIdA, <<>>, FALSE, "a")
         st3 == updateStreamingMessage(st2, Sess, tids.aiMessageIdB, <<>>, FALSE, "b")
     IN  /\ messages' = st3.messages
         /\ streamingMessages' = st3.streamingMessages
         /\ ids' = tids
  /\ nextId' = nextId + 3
  /\ isStreaming' = TRUE
  /\ pc' = "fetch"
  /\ turns' = turns + 1
  /\ wire' = <<>>
  /\ buffer' = <<>>
  /\ modelStatus' = NoStatus
  /\ srv' = NoSrv
  /\ seen' = <<>>
  /\ UNCHANGED <<activeSession, toasts, emitted,
                 wsVars, background, plain, response, clientVars>>

\* fetch rejects or the response is not ok: the catch block reports it and
\* the finally block re-enables the input.
CompareFetchFail ==
  /\ pc = "fetch"
  /\ toasts' = Append(toasts, "Failed to send message to both models")
  /\ isStreaming' = FALSE
  /\ pc' = "idle"
  /\ UNCHANGED <<storeVars, nextId, ids, wire, emitted, buffer, modelStatus,
                 srv, seen, turns,
                 wsVars, background, plain, response, clientVars>>

\* The lines of one fragment are processed; the loop is left when both
\* participants are marked complete.
CompareApply(text) ==
  LET cs0 == [st |-> Store, modelStatus |-> modelStatus, toasts |-> toasts]
      cs  == CompareLines(cs0, Sess, ids, CompleteLines(text))
      out == cs.modelStatus.a.complete /\ cs.modelStatus.b.complete
  IN  /\ messages' = cs.st.messages
      /\ streamingMessages' = cs.st.streamingMessages
      /\ modelStatus' = cs.modelStatus
      /\ toasts' = cs.toasts
      /\ seen' = seen \o CompleteLines(text)
      /\ buffer' = IF out THEN <<>> ELSE CarriedLine(text)
      /\ pc' = IF out THEN "idle" ELSE "read"
      /\ isStreaming' = ~out

CompareRead(frag, split) ==
  /\ pc = "read"
  /\ emitted + Len(frag.lines) <= MaxCompareLines
  /\ CompareApply(buffer \o FragmentText(frag.lines, split))
  /\ wire' = IF pc' = "idle" THEN <<>> ELSE FragmentRest(frag.lines, split)
  /\ srv' = frag.sv
  /\ emitted' = emitted + Len(frag.lines)
  /\ UNCHANGED <<activeSession, nextId, ids, turns,
                 wsVars, background, plain, response, clientVars>>

CompareReadRest ==
  /\ pc = "read"
  /\ wire # <<>>
  /\ CompareApply(buffer \o wire)
  /\ wire' = <<>>
  /\ UNCHANGED <<activeSession, nextId, ids, emitted, srv, turns,
                 wsVars, background, plain, response, clientVars>>

\* reader.read() reports done before both participants completed.
CompareReadDone ==
  /\ pc = "read"
  /\ wire = <<>>
  /\ isStreaming' = FALSE
  /\ pc' = "idle"
  /\ buffer' = <<>>
  /\ UNCHANGED <<storeVars, toasts, nextId, ids, wire, emitted, modelStatus,
                 srv, seen, turns,
                 wsVars, background, plain, response, clientVars>>

\* reader.read() rejects (the connection dropped).
CompareReadError ==
  /\ pc = "read"
  /\ toasts' = Append(toasts, "Failed to send message to both models")
  /\ isStreaming' = FALSE
  /\ pc' = "idle"
  /\ wire' = <<>>
  /\ buffer' = <<>>
  /\ UNCHANGED <<storeVars, nextId, ids, emitted, modelStatus, srv, seen, turns,
                 wsVars, background, plain, response, clientVars>>

(***************************************************************************)
(* The WebSocket hook (useWebSocket).  A hook state is the record of the   *)
(* refs and state that connect() and disconnect() read and write.  A       *)
(* socket is a record: its readyState, whether its open event has fired,   *)
(* and what the connect closure that created it sees in                    *)
(* messages[activeSession.id] (empty or not).  A closed socket whose close *)
(* handler has returned is unreachable, and its place in sockets is used   *)
(* again by the next WebSocket created.                                    *)
(***************************************************************************)
maxReconnectAttempts == 5

\* Close codes a close event can carry.
CloseCodes == {1000, 1006, 1008, 1011}

\* The codes the close event of socket s can carry: 1006 when the connection
\* was never established; 1000 or 1006 when the client closed an established
\* connection; any code when the server or the network ended it.
CodesFor(s) ==
  IF ~s.opened THEN {1006}
  ELSE IF s.state = "closing" THEN {1000, 1006}
  ELSE CloseCodes

\* localStorage holds a refresh token for a signed-in user only.
HasRefreshToken == user = "member"

RECURSIVE Pow2(_)
Pow2(k) == IF k = 0 THEN 1 ELSE 2 * Pow2(k - 1)

\* The delay without its cap.
Delay_uncapped(attempts) == 1000 * Pow2(attempts)

\* Math.min(1000 * Math.pow(2, attempts), 30000)
Delay(attempts) == Min(1000 * Pow2(attempts), 30000)

Hook == [sockets |-> sockets, wsCurrent |-> wsCurrent,
         isConnected |-> isConnected, reconnectTimer |-> reconnectTimer,
         timers |-> timers]

SetHook(h) ==
  /\ sockets' = h.sockets
  /\ wsCurrent' = h.wsCurrent
  /\ isConnected' = h.isConnected
  /\ reconnectTimer' = h.reconnectTimer
  /\ timers' = h.timers

NewSocket(empty) == [state |-> "connecting", opened |-> FALSE, empty |-> empty]

\* The place of the next WebSocket in ss, when the close handlers of the
\* sockets in busy are still running; 0 when MaxSockets places are in use.
Slot(ss, busy) ==
  LET free == {i \in 1..Len(ss) : ss[i].state = "closed" /\ i \notin busy}
  IN  IF free # {} THEN CHOOSE i \in free : \A j \in free : i <= j
      ELSE IF Len(ss) < MaxSockets THEN Len(ss) + 1
      ELSE 0

\* connect() of a closure that sees empty: a new WebSocket is created and
\* stored in ws.current.
connect(h, empty, busy) ==
  LET i == Slot(h.sockets, busy)
  IN  [h EXCEPT !.sockets = IF i > Len(@) THEN Append(@, NewSocket(empty))
                            ELSE [@ EXCEPT ![i] = NewSocket(empty)],
                !.wsCurrent = i]

\* WebSocket.close(): a socket that is connecting or open starts closing.
CloseSocket(ss, i) ==
  [ss EXCEPT ![i].state = IF @ \in {"connecting", "open"} THEN "closing" ELSE @]

\* disconnect(): the timer in reconnectTimer.current is cleared, the socket
\* in ws.current is closed and forgotten.
disconnect(h) ==
  [h EXCEPT !.timers = {t \in @ : t.id # h.reconnectTimer},
            !.reconnectTimer = 0,
            !.sockets = IF h.wsCurrent # 0 THEN CloseSocket(@, h.wsCurrent) ELSE @,
            !.wsCurrent = 0,
            !.isConnected = FALSE]

Live == {i \in 1..Len(sockets) : sockets[i].state \in {"connecting", "open"}}

\* The hook holds an open socket and knows it.
Established ==
  isConnected /\ wsCurrent # 0 /\ sockets[wsCurrent].state = "open"

\* What a connect closure created now sees in messages[activeSession.id].
SeesEmpty == Msgs(Sess) = <<>>

\* The mount effect: connect().
EffectMount ==
  /\ ~mounted
  /\ sockets = <<>>
  /\ mounted' = TRUE
  /\ closureEmpty' = SeesEmpty
  /\ SetHook(connect(Hook, SeesEmpty, refreshing))
  /\ UNCHANGED <<storeVars, streamVars, reconnectAttempts, refreshing, user,
                 callerOff, calls, wsEvents, cycles,
                 authFailed, rebound, background, plain, response, clientVars>>

\* The cleanup of the mount effect when the view is left: disconnect().
Unmount ==
  /\ mounted
  /\ authFailed' = FALSE
  /\ mounted' = FALSE
  /\ SetHook(disconnect(Hook))
  /\ callerOff' = TRUE
  /\ UNCHANGED <<storeVars, streamVars, reconnectAttempts, refreshing, user,
                 calls, wsEvents, closureEmpty, cycles, rebound, background, plain, response, clientVars>>

\* The caller calls the returned disconnect().
CallDisconnect ==
  /\ mounted
  /\ authFailed' = FALSE
  /\ calls < MaxCalls
  /\ calls' = calls + 1
  /\ SetHook(disconnect(Hook))
  /\ callerOff' = TRUE
  /\ UNCHANGED <<storeVars, streamVars, reconnectAttempts, refreshing, user,
                 mounted, wsEvents, closureEmpty, cycles, rebound, background, plain, response, clientVars>>

\* The caller calls the returned reconnect (connect()).
CallReconnect ==
  /\ mounted
  /\ authFailed' = FALSE
  /\ calls < MaxCalls
  /\ Slot(sockets, refreshing) # 0
  /\ calls' = calls + 1
  /\ SetHook(connect(Hook, closureEmpty, refreshing))
  /\ callerOff' = FALSE
  /\ UNCHANGED <<storeVars, streamVars, reconnectAttempts, refreshing, user,
                 mounted, wsEvents, closureEmpty, cycles, rebound, background, plain, response, clientVars>>

\* sendMessage(): sends on an open socket, otherwise notifies and connects.
CallSendMessage ==
  /\ mounted
  /\ authFailed' = FALSE
  /\ calls < MaxCalls
  /\ calls' = calls + 1
  /\ callerOff' = FALSE
  /\ IF wsCurrent # 0 /\ sockets[wsCurrent].state = "open"
     THEN UNCHANGED <<sockets, wsCurrent, isConnected, reconnectTimer, timers,
                      toasts>>
     ELSE /\ Slot(sockets, refreshing) # 0
          /\ toasts' = Append(toasts,
                 "Connection not established. Attempting to reconnect...")
          /\ SetHook(connect(Hook, closureEmpty, refreshing))
  /\ UNCHANGED <<storeVars, nextId, isStreaming, pc, ids, wire, emitted, buffer,
                 modelStatus, srv, seen, turns, reconnectAttempts, refreshing,
                 user, mounted, wsEvents, closureEmpty, cycles, rebound, background, plain, response, clientVars>>

\* auth.user changes: connect is created anew, the mount effect is cleaned up
\* and run again with it, then the user-change effect runs with the
\* isConnected value of that render.
UserChange ==
  /\ mounted
  /\ authFailed' = FALSE
  /\ user = "anonymous"
  /\ user' = "member"
  /\ rebound' = (rebound \/ Established)
  /\ closureEmpty' = SeesEmpty
  /\ LET h0 == disconnect(Hook)
         h1 == connect(h0, SeesEmpty, refreshing)
         h2 == disconnect(h1)
         h3 == connect(h2, SeesEmpty, refreshing)
     IN  /\ Slot(h0.sockets, refreshing) # 0
         /\ IF isConnected /\ h1.wsCurrent # 0
            THEN Slot(h2.sockets, refreshing) # 0 /\ SetHook(h3)
            ELSE SetHook(h1)
  /\ callerOff' = FALSE
  /\ UNCHANGED <<storeVars, streamVars, reconnectAttempts, refreshing, mounted,
                 calls, wsEvents, cycles, background, plain, response, clientVars>>

\* onopen that leaves the attempt counter as it is.
SocketOpen_keepsCounter(i) ==
  /\ sockets[i].state = "connecting"
  /\ sockets' = [sockets EXCEPT ![i].state = "open", ![i].opened = TRUE]
  /\ isConnected' = TRUE
  /\ cycles' = 0
  /\ UNCHANGED <<storeVars, streamVars, wsCurrent, reconnectTimer, timers,
                 refreshing, user, mounted, callerOff, calls, wsEvents,
                 closureEmpty, authFailed, reconnectAttempts,
                 rebound, background, plain, response, clientVars>>

\* onopen of socket i.
SocketOpen(i) ==
  /\ sockets[i].state = "connecting"
  /\ sockets' = [sockets EXCEPT ![i].state = "open", ![i].opened = TRUE]
  /\ isConnected' = TRUE
  /\ reconnectAttempts' = 0
  /\ cycles' = 0
  /\ UNCHANGED <<storeVars, streamVars, wsCurrent, reconnectTimer, timers,
                 refreshing, user, mounted, callerOff, calls, wsEvents,
                 closureEmpty, authFailed, rebound, background, plain, response, clientVars>>

\* The id setTimeout returns: one no pending timer has.
FreeTimerId ==
  CHOOSE n \in 1..(Cardinality(timers) + 1) :
    /\ \A t \in timers : t.id # n
    /\ \A m \in 1..(n - 1) : \E t \in timers : t.id = m

\* The branch the close handler takes for a code: it refreshes the token,
\* sets a reconnect timer, notifies that the attempts are used up, or does
\* nothing more.
\* The close handler with a budget test that lets a sixth attempt through.
onclose_sixAttempts(code) ==
  IF code \in {1006, 1008} /\ HasRefreshToken /\ reconnectAttempts = 0
  THEN "refresh"
  ELSE IF code # 1000 /\ reconnectAttempts <= maxReconnectAttempts
  THEN "retry"
  ELSE IF reconnectAttempts >= maxReconnectAttempts
  THEN "notify"
  ELSE "none"

\* The close handler without its test of the code 1000.
onclose_retryNormal(code) ==
  IF code \in {1006, 1008} /\ HasRefreshToken /\ reconnectAttempts = 0
  THEN "refresh"
  ELSE IF reconnectAttempts < maxReconnectAttempts
  THEN "retry"
  ELSE "notify"

onclose(code) ==
  IF code \in {1006, 1008} /\ HasRefreshToken /\ reconnectAttempts = 0
  THEN "refresh"
  ELSE IF code # 1000 /\ reconnectAttempts < maxReconnectAttempts
  THEN "retry"
  ELSE IF reconnectAttempts >= maxReconnectAttempts
  THEN "notify"
  ELSE "none"

\* The close handler that also finalizes the open buffers of the session.
SocketClose_finalizesBuffers(i, code) ==
  /\ sockets[i].state \in {"connecting", "open", "closing"}
  /\ code \in CodesFor(sockets[i])
  /\ sockets' = [sockets EXCEPT ![i].state = "closed", ![i].opened = FALSE]
  /\ isConnected' = FALSE
  /\ refreshing' = IF onclose(code) = "refresh" THEN refreshing \cup {i}
                   ELSE refreshing
  /\ cycles' = IF onclose(code) = "refresh" THEN Min(cycles + 1, MaxCycles)
               ELSE cycles
  /\ IF onclose(code) = "retry"
     THEN /\ reconnectAttempts' = reconnectAttempts + 1
          /\ timers' = timers \cup {[id |-> FreeTimerId,
                                     delay |-> Delay(reconnectAttempts + 1),
                                     empty |-> sockets[i].empty]}
          /\ reconnectTimer' = FreeTimerId
     ELSE UNCHANGED <<reconnectAttempts, timers, reconnectTimer>>
  /\ toasts' = IF onclose(code) = "notify"
               THEN Append(toasts,
                      "Failed to connect to chat. Please refresh the page.")
               ELSE toasts
  /\ messages' =
       Put(messages, Sess,
           Msgs(Sess) \o
             [k \in 1..Cardinality(DOMAIN Bufs(Sess)) |->
                LET id == CHOOSE x \in DOMAIN Bufs(Sess) :
                            Cardinality({y \in DOMAIN Bufs(Sess) : y < x}) = k - 1
                IN  AssistantMessage(id, Bufs(Sess)[id].content,
                                     Bufs(Sess)[id].participant)])
  /\ streamingMessages' = Put(streamingMessages, Sess, NoKeys)
  /\ UNCHANGED <<activeSession, nextId, isStreaming, pc, ids, wire, emitted,
                 buffer, modelStatus, srv, seen, turns, wsCurrent, user, mounted,
                 callerOff, calls, wsEvents, closureEmpty, authFailed, rebound,
                 background, plain, response, clientVars>>

\* onclose of socket i with the given code, up to its await or its end.
SocketClose(i, code) ==
  /\ sockets[i].state \in {"connecting", "open", "closing"}
  /\ code \in CodesFor(sockets[i])
  /\ sockets' = [sockets EXCEPT ![i].state = "closed", ![i].opened = FALSE]
  /\ isConnected' = FALSE
  /\ refreshing' = IF onclose(code) = "refresh" THEN refreshing \cup {i}
                   ELSE refreshing
  /\ cycles' = IF onclose(code) = "refresh" THEN Min(cycles + 1, MaxCycles)
               ELSE cycles
  /\ IF onclose(code) = "retry"
     THEN /\ reconnectAttempts' = reconnectAttempts + 1
          /\ timers' = timers \cup {[id |-> FreeTimerId,
                                     delay |-> Delay(reconnectAttempts + 1),
                                     empty |-> sockets[i].empty]}
          /\ reconnectTimer' = FreeTimerId
     ELSE UNCHANGED <<reconnectAttempts, timers, reconnectTimer>>
  /\ toasts' = IF onclose(code) = "notify"
               THEN Append(toasts,
                      "Failed to connect to chat. Please refresh the page.")
               ELSE toasts
  /\ UNCHANGED <<storeVars, nextId, isStreaming, pc, ids, wire, emitted, buffer,
                 modelStatus, srv, seen, turns, wsCurrent, user, mounted,
                 callerOff, calls, wsEvents, closureEmpty, authFailed, rebound, background, plain, response, clientVars>>

\* refreshAccessToken() settles and the close handler of socket i resumes
\* after its await.
RefreshDone(i, ok) ==
  /\ i \in refreshing
  /\ refreshing' = refreshing \ {i}
  /\ IF ok
     THEN /\ Slot(sockets, refreshing \ {i}) # 0
          /\ reconnectAttempts' = 0
          /\ SetHook(connect(Hook, sockets[i].empty, refreshing \ {i}))
          /\ UNCHANGED <<toasts, authFailed>>
     ELSE /\ toasts' = Append(toasts,
                 "Authentication failed. Please sign in again.")
          /\ authFailed' = TRUE
          /\ UNCHANGED <<sockets, wsCurrent, isConnected, reconnectTimer,
                         timers, reconnectAttempts>>
  /\ UNCHANGED <<storeVars, nextId, isStreaming, pc, ids, wire, emitted, buffer,
                 modelStatus, srv, seen, turns, user, mounted, callerOff, calls,
                 wsEvents, closureEmpty, cycles, rebound, background, plain, response, clientVars>>

\* A reconnect timer expires: connect().
TimerFire(t) ==
  /\ t \in timers
  /\ Slot(sockets, refreshing) # 0
  /\ SetHook([connect(Hook, t.empty, refreshing) EXCEPT !.timers = @ \ {t}])
  /\ UNCHANGED <<storeVars, streamVars, reconnectAttempts, refreshing, user,
                 mounted, callerOff, calls, wsEvents, closureEmpty, cycles,
                 authFailed, rebound, background, plain, response, clientVars>>

\* message_id values the server sends.
WsIds == {1}

\* The messages a session_state event carries.
ServerMessage == AssistantMessage(9, Hi, "a")
Snapshots == {<<>>, <<ServerMessage>>}

\* onmessage of socket i, event type message_chunk.
OnMessageChunk(i, messageId, chunk) ==
  /\ sockets[i].state = "open"
  /\ wsEvents < MaxEvents
  /\ wsEvents' = wsEvents + 1
  /\ LET st == updateStreamingMessage(Store, Sess, messageId, chunk, FALSE, "a")
     IN  /\ messages' = st.messages
         /\ streamingMessages' = st.streamingMessages
  /\ UNCHANGED <<activeSession, streamVars, sockets, wsCurrent, isConnected,
                 reconnectTimer, timers, reconnectAttempts, refreshing, user,
                 mounted, callerOff, calls, closureEmpty, cycles,
                 authFailed, rebound, background, plain, response, clientVars>>

\* onmessage of socket i, event type message_complete.
OnMessageComplete(i, messageId) ==
  /\ sockets[i].state = "open"
  /\ wsEvents < MaxEvents
  /\ wsEvents' = wsEvents + 1
  /\ LET st == updateStreamingMessage(Store, Sess, messageId, <<>>, TRUE, "a")
     IN  /\ messages' = st.messages
         /\ streamingMessages' = st.streamingMessages
  /\ UNCHANGED <<activeSession, streamVars, sockets, wsCurrent, isConnected,
                 reconnectTimer, timers, reconnectAttempts, refreshing, user,
                 mounted, callerOff, calls, closureEmpty, cycles,
                 authFailed, rebound, background, plain, response, clientVars>>

\* onmessage of socket i, event type session_state: the snapshot is applied
\* when the messages seen by the closure that created the socket are empty.
OnSessionState(i, msgs) ==
  /\ sockets[i].state = "open"
  /\ wsEvents < MaxEvents
  /\ wsEvents' = wsEvents + 1
  /\ LET st == IF sockets[i].empty THEN setSessionState(Store, Sess, msgs)
               ELSE Store
     IN  /\ messages' = st.messages
         /\ streamingMessages' = st.streamingMessages
  /\ UNCHANGED <<activeSession, streamVars, sockets, wsCurrent, isConnected,
                 reconnectTimer, timers, reconnectAttempts, refreshing, user,
                 mounted, callerOff, calls, closureEmpty, cycles,
                 authFailed, rebound, background, plain, response, clientVars>>

\* onmessage of socket i, an event whose type the switch does not name: the
\* default branch logs it.
OnOtherEvent(i) ==
  /\ sockets[i].state = "open"
  /\ wsEvents < MaxEvents
  /\ wsEvents' = wsEvents + 1
  /\ UNCHANGED <<storeVars, streamVars, sockets, wsCurrent, isConnected,
                 reconnectTimer, timers, reconnectAttempts, refreshing, user,
                 mounted, callerOff, calls, closureEmpty, cycles,
                 authFailed, rebound, background, plain, response, clientVars>>

(***************************************************************************)
(* The HTTP client (apiClient): its response interceptor and the token     *)
(* refresh.  A request is a record: where it stands (not sent, sent and    *)
(* awaiting its response, awaiting the token refresh it started, waiting   *)
(* as a subscriber of a refresh, resolved, rejected) and its _retry flag.  *)
(***************************************************************************)
Requests == 1..MaxRequests

NoRequest == [status |-> "idle", retry |-> FALSE]

\* The status codes of a response.
StatusCodes == {200, 401, 500}

\* The application sends request r to an endpoint that is not an auth
\* endpoint.
ClientSend(r) ==
  /\ ~navigated
  /\ requests[r].status = "idle"
  /\ requests' = [requests EXCEPT ![r].status = "sent"]
  /\ UNCHANGED <<storeVars, streamVars, wsVars, background, envVars,
                 isRefreshing, refreshSubscribers, navigated>>

\* The response of request r arrives with the given status code and the
\* response interceptor runs up to its await or its end.
ClientResponse(r, code) ==
  /\ ~navigated
  /\ requests[r].status = "sent"
  /\ IF code = 200
     THEN /\ requests' = [requests EXCEPT ![r].status = "resolved"]
          /\ UNCHANGED <<isRefreshing, refreshSubscribers, navigated>>
     ELSE IF code # 401 \/ requests[r].retry
     THEN /\ requests' = [requests EXCEPT ![r].status = "rejected"]
          /\ UNCHANGED <<isRefreshing, refreshSubscribers, navigated>>
     ELSE IF isRefreshing
     THEN /\ requests' = [requests EXCEPT ![r].status = "queued"]
          /\ refreshSubscribers' = Append(refreshSubscribers, r)
          /\ UNCHANGED <<isRefreshing, navigated>>
     ELSE IF HasRefreshToken
     THEN /\ isRefreshing' = TRUE
          /\ requests' = [requests EXCEPT ![r] = [status |-> "refreshing",
                                                  retry |-> TRUE]]
          /\ UNCHANGED <<refreshSubscribers, navigated>>
     ELSE /\ isRefreshing' = FALSE
          /\ requests' = [requests EXCEPT ![r] = [status |-> "rejected",
                                                  retry |-> TRUE]]
          /\ navigated' = TRUE
          /\ UNCHANGED refreshSubscribers
  /\ UNCHANGED <<storeVars, streamVars, wsVars, background, envVars>>

\* The refresh request started for request r succeeds: onRefreshed sends
\* every subscriber's request again, then request r is sent again.
ClientRefreshOk(r) ==
  /\ ~navigated
  /\ requests[r].status = "refreshing"
  /\ isRefreshing' = FALSE
  /\ refreshSubscribers' = <<>>
  /\ requests' =
       [q \in Requests |->
          IF q = r \/ (\E k \in 1..Len(refreshSubscribers) : refreshSubscribers[k] = q)
          THEN [requests[q] EXCEPT !.status = "sent"]
          ELSE requests[q]]
  /\ UNCHANGED <<storeVars, streamVars, wsVars, background, envVars, navigated>>

\* The refresh request started for request r fails: the tokens are cleared,
\* window.location.href is assigned and request r is rejected.
ClientRefreshFail(r) ==
  /\ ~navigated
  /\ requests[r].status = "refreshing"
  /\ isRefreshing' = FALSE
  /\ requests' = [requests EXCEPT ![r].status = "rejected"]
  /\ navigated' = TRUE
  /\ UNCHANGED <<storeVars, streamVars, wsVars, background, envVars,
                 refreshSubscribers>>

InitProgram ==
  /\ messages = NoKeys
  /\ streamingMessages = NoKeys
  /\ activeSession = "null"
  /\ toasts = <<>>
  /\ nextId = 1
  /\ isStreaming = FALSE
  /\ pc = "idle"
  /\ ids = NoIds
  /\ wire = <<>>
  /\ emitted = 0
  /\ buffer = <<>>
  /\ modelStatus = NoStatus
  /\ srv = NoSrv
  /\ seen = <<>>
  /\ turns = 0
  /\ sockets = <<>>
  /\ wsCurrent = 0
  /\ isConnected = FALSE
  /\ reconnectTimer = 0
  /\ timers = {}
  /\ reconnectAttempts = 0
  /\ refreshing = {}
  /\ mounted = FALSE
  /\ callerOff = FALSE
  /\ calls = 0
  /\ wsEvents = 0
  /\ closureEmpty = TRUE
  /\ cycles = 0
  /\ authFailed = FALSE
  /\ rebound = FALSE
  /\ background = NoStream
  /\ isRefreshing = FALSE
  /\ refreshSubscribers = <<>>
  /\ requests = [r \in Requests |-> NoRequest]
  /\ navigated = FALSE

InitCommon == InitProgram /\ plain = <<>> /\ response = <<>>

Init == InitCommon /\ user = "member"

NextDirect ==
  \/ HandleSubmit(Hello)
  \/ FetchFail
  \/ FetchOk
  \/ \E lines \in Fragments(DirectServerLines), split \in BOOLEAN :
       DirectRead(lines, split)
  \/ DirectReadRest
  \/ DirectReadDone
  \/ DirectReadError

SpecDirect == Init /\ [][NextDirect]_vars

NextCompare ==
  \/ CompareSubmit(Hello)
  \/ CompareFetchFail
  \/ FetchOk
  \/ \E frag \in SrvFragments(srv), split \in BOOLEAN : CompareRead(frag, split)
  \/ CompareReadRest
  \/ CompareReadDone
  \/ CompareReadError

SpecCompare == Init /\ [][NextCompare]_vars

InitWS == InitCommon /\ user \in {"anonymous", "member"}

\* The hook left to itself after its mount: socket events, token refreshes
\* and timers.
NextSupervisor ==
  \/ EffectMount
  \/ \E i \in 1..Len(sockets) : SocketOpen(i)
  \/ \E i \in 1..Len(sockets), code \in CloseCodes : SocketClose(i, code)
  \/ \E i \in refreshing, ok \in BOOLEAN : RefreshDone(i, ok)
  \/ \E t \in timers : TimerFire(t)

\* The hook and the calls of its user.
NextWS ==
  \/ NextSupervisor
  \/ Unmount
  \/ CallDisconnect
  \/ CallReconnect
  \/ CallSendMessage

SpecWS == InitWS /\ [][NextWS]_vars

\* Socket events arrive, token refreshes settle and timers expire: a step of
\* the supervisor that stays possible is taken eventually.
SpecWSFair == SpecWS /\ WF_vars(NextSupervisor)

\* The hook while its sockets stay up: the events they receive, a change of
\* user, and the input component adding a user message to the store.
NextEvents ==
  \/ EffectMount
  \/ \E i \in 1..Len(sockets) : SocketOpen(i)
  \/ UserChange
  \/ HandleSubmit(Hello)
  \/ FetchFail
  \/ \E i \in 1..Len(sockets), id \in WsIds : OnMessageChunk(i, id, Hi)
  \/ \E i \in 1..Len(sockets), id \in WsIds : OnMessageComplete(i, id)
  \/ \E i \in 1..Len(sockets), msgs \in Snapshots : OnSessionState(i, msgs)

SpecEvents == InitWS /\ [][NextEvents]_vars

\* Direct mode with a server that sends the sender's text, escaped, as one
\* content line, and the completion line.
InitEscape ==
  InitProgram /\ user = "member" /\ plain \in Texts /\ response = <<>>

NextEscape ==
  \/ HandleSubmit(Hello)
  \/ FetchOk
  \/ \E split \in BOOLEAN : DirectRead(<<Frame(PrefA0, escape(plain))>>, split)
  \/ DirectRead(<<PrefAd \o StopBody>>, FALSE)
  \/ DirectReadRest
  \/ DirectReadDone

SpecEscape == InitEscape /\ [][NextEscape]_vars

\* The submit button (drawn as a stop square while a turn streams) or the
\* Enter key is used while a turn streams: handleSubmit returns at once.
SubmitWhileStreaming ==
  /\ isStreaming
  /\ UNCHANGED vars

\* Direct mode with a user who also uses the button while a turn streams.
NextStop ==
  \/ NextDirect
  \/ SubmitWhileStreaming

SpecStop == Init /\ [][NextStop]_vars

\* Compare mode with a response body fixed beforehand and handed out by
\* reader.read() in fragments of one or two lines, the last of them whole or
\* split: every way of cutting the same body.
ResponseLines ==
  {Frame(PrefA0, He), Frame(PrefB0, Hi), PrefAd \o StopBody, PrefBd \o StopBody}

Responses == UNION {[1..k -> ResponseLines] : k \in 3..MaxResponse}

InitFragments ==
  InitProgram /\ user = "member" /\ plain = <<>> /\ response \in Responses

\* The next k lines of the response body.
NextLines(k) == SubSeq(response, emitted + 1, emitted + k)

NextFragments ==
  \/ CompareSubmit(Hello)
  \/ FetchOk
  \/ \E k \in 1..2, split \in BOOLEAN :
       /\ emitted + k <= Len(response)
       /\ CompareRead([lines |-> NextLines(k), sv |-> srv], split)
  \/ CompareReadRest
  \/ (emitted = Len(response) /\ CompareReadDone)

SpecFragments == InitFragments /\ [][NextFragments]_vars

\* Direct mode with a user who selects sessions in the sidebar.
SwitchLines == {<<Frame(PrefA0, Hi)>>, <<PrefAd \o StopBody>>}

NextSwitch ==
  \/ \E s \in Sessions : SelectSession(s)
  \/ SubmitActive(Hello)
  \/ FetchOk
  \/ \E lines \in SwitchLines, split \in BOOLEAN : DirectRead(lines, split)
  \/ DirectReadRest
  \/ DirectReadDone
  \/ BackgroundFetchOk
  \/ \E lines \in SwitchLines : BackgroundRead(lines)
  \/ BackgroundDone
  \/ BackgroundFail

SpecSwitch == Init /\ [][NextSwitch]_vars

\* Compare mode with the hook's socket open beside the HTTP stream: content
\* lines arrive on the stream and message_chunk events, which carry the id
\* of an open buffer, on the socket.
NextChunks ==
  \/ EffectMount
  \/ \E i \in 1..Len(sockets) : SocketOpen(i)
  \/ CompareSubmit(Hello)
  \/ FetchOk
  \/ \E frag \in SrvFragments(srv), split \in BOOLEAN : CompareRead(frag, split)
  \/ CompareReadRest
  \/ \E i \in 1..Len(sockets), id \in DOMAIN Bufs(Sess) : OnMessageChunk(i, id, Hi)

SpecChunks == Init /\ [][NextChunks]_vars

\* The hook left to itself while the identity of its user may change.
NextIdentity ==
  \/ NextSupervisor
  \/ UserChange

SpecIdentity == InitWS /\ [][NextIdentity]_vars

(***************************************************************************)
(* Properties of the direct-mode stream (SpecDirect).                      *)
(***************************************************************************)
Range(f) == {f[i] : i \in DOMAIN f}
MinOf(S) == CHOOSE x \in S : \A y \in S : x <= y

AdStop  == PrefAd \o StopBody
AdError == PrefAd \o ErrorBody
BdStop  == PrefBd \o StopBody
BdError == PrefBd \o ErrorBody

\* C1: when the completion line for the turn's assistant message has been
\* processed twice, messages[sessionId] holds exactly one entry with that id.
C1_DuplicateCompletionFinalizesOnce ==
  Cardinality({n \in 1..Len(seen) : StartsWith(seen[n], PrefAd)}) >= 2
    => Cardinality(Entries(Sess, ids.aiMessageIdA)) = 1

\* C3: direct mode, first turn: after a content line and a completion line
\* with finishReason error, no assistant message of the turn is in
\* messages[sessionId], exactly one notification has been raised and the
\* input is enabled again.
C3_DirectErrorCompletion ==
  (turns = 1 /\ pc = "idle" /\ seen = <<Frame(PrefA0, Hi), AdError>>)
    => /\ Entries(Sess, ids.aiMessageIdA) = {}
       /\ Len(toasts) = 1
       /\ ~isStreaming

FramedA(l) == \E c \in ChunkTexts : l = Frame(PrefA0, c)
ChunkOf(l) == CHOOSE c \in ChunkTexts : l = Frame(PrefA0, c)
UnescapedConcat(ls) ==
  Concat([j \in 1..Len(ls) |-> unescapeChunk(ChunkOf(ls[j]))])

\* C5: when the lines processed in a turn are content lines carrying chunks
\* c1..cn followed by a completion with finishReason stop, the finalized
\* assistant message of the turn has content
\* unescape(c1) ++ ... ++ unescape(cn).
C5_ChunkOrder ==
  \A n \in 1..Len(seen) :
    ((\A j \in 1..(n - 1) : FramedA(seen[j])) /\ seen[n] = AdStop)
      => LET e == Entries(Sess, ids.aiMessageIdA)
         IN  /\ e # {}
             /\ Msgs(Sess)[MinOf(e)] =
                  AssistantMessage(ids.aiMessageIdA,
                                   UnescapedConcat(SubSeq(seen, 1, n - 1)), "a")

\* A chunk ending in a backslash followed by a chunk starting with n: the
\* finalized text keeps the two characters.
C5_Witness ==
  /\ seen = <<Frame(PrefA0, <<BS, BS>>), Frame(PrefA0, <<"n">>), AdStop>>
  /\ Entries(Sess, ids.aiMessageIdA) # {}
  /\ Msgs(Sess)[MinOf(Entries(Sess, ids.aiMessageIdA))].content = <<BS, "n">>

IdOf(p) == IF p = "a" THEN ids.aiMessageIdA ELSE ids.aiMessageIdB

\* The text of participant p carried by the content lines processed so far.
TextSeen(p) ==
  LET m == Cardinality({n \in 1..Len(seen) : StartsWith(seen[n], Pref0[p])})
  IN  Concat(SubSeq(ServerText[p], 1, m))

\* Participant p's buffer or finalized message holds exactly p's text.
OwnText(p) ==
  IF (PrefD[p] \o StopBody) \in Range(seen)
  THEN /\ IdOf(p) \notin DOMAIN Bufs(Sess)
       /\ \E i \in 1..Len(Msgs(Sess)) :
            /\ Entries(Sess, IdOf(p)) = {i}
            /\ Msgs(Sess)[i] = AssistantMessage(IdOf(p), TextSeen(p), p)
  ELSE /\ IdOf(p) \in DOMAIN Bufs(Sess)
       /\ Bufs(Sess)[IdOf(p)].content = TextSeen(p)
       /\ Bufs(Sess)[IdOf(p)].participant = p
       /\ Entries(Sess, IdOf(p)) = {}

\* C4: once a completion with finishReason error has been processed for a
\* participant, its buffer is no longer in streamingMessages[sessionId] and
\* messages[sessionId] has no entry for it.
C4_ErrorRemovesBuffer ==
  \A p \in {"a", "b"} :
    (PrefD[p] \o ErrorBody) \in Range(seen)
      => /\ IdOf(p) \notin DOMAIN Bufs(Sess)
         /\ Entries(Sess, IdOf(p)) = {}

\* C6: under every interleaving each participant's buffer, and its finalized
\* message, holds the concatenation of exactly its own chunks in order and
\* carries its own tag; the lines He(a), Hi(b), llo(a), stop(a), stop(b)
\* give the messages "Hello" for a and "hi" for b.
C6_ParticipantRouting ==
  /\ turns >= 1 => (OwnText("a") /\ OwnText("b"))
  /\ (turns = 1 /\ seen = <<Frame(PrefA0, He), Frame(PrefB0, Hi),
                            Frame(PrefA0, Llo), AdStop, BdStop>>)
       => Msgs(Sess) = <<UserMessage(1, Hello),
                         AssistantMessage(2, He \o Llo, "a"),
                         AssistantMessage(3, Hi, "b")>>

C6_Witness ==
  /\ turns = 1
  /\ seen = <<Frame(PrefA0, He), Frame(PrefB0, Hi), Frame(PrefA0, Llo),
              AdStop, BdStop>>
  /\ Len(Msgs(Sess)) = 3
  /\ Msgs(Sess)[2].content = <<"H", "e", "l", "l", "o">>

\* C7: once participant b's error completion has been processed, participant
\* a's buffer and completion status are those its own lines determine, a's
\* finalized message is the one its own lines determine, and a fragment that
\* carries b's error does not end the turn unless a's completion has been
\* processed too.
C7_ErrorOnBLeavesA ==
  /\ [](BdError \in Range(seen)
          => /\ OwnText("a")
             /\ modelStatus.a.complete =
                  (\E n \in 1..Len(seen) : StartsWith(seen[n], PrefAd)))
  /\ [][(BdError \notin Range(seen) /\ BdError \in Range(seen') /\ pc' = "idle")
          => (\E n \in 1..Len(seen') : StartsWith(seen'[n], PrefAd))]_vars

C7_Witness ==
  /\ seen = <<Frame(PrefB0, Hi), BdError, Frame(PrefA0, He),
              Frame(PrefA0, Llo), AdStop>>
  /\ \E i \in 1..Len(Msgs(Sess)) :
       Msgs(Sess)[i] = AssistantMessage(ids.aiMessageIdA, He \o Llo, "a")

(***************************************************************************)
(* Properties of the WebSocket hook (SpecWS).                              *)
(***************************************************************************)

\* C2: a message_chunk event whose message id has no open buffer (it was
\* finalized, failed, or never opened) leaves messages and streamingMessages
\* as they were.
C2_ChunkWithoutBufferIgnored ==
  [][\A i \in 1..Len(sockets), id \in WsIds :
       (OnMessageChunk(i, id, Hi) /\ id \notin DOMAIN Bufs(Sess))
         => UNCHANGED <<messages, streamingMessages>>]_vars

\* C9: at any moment at most one WebSocket of the session is connecting or
\* open.
C9_AtMostOneLiveSocket == Cardinality(Live) <= 1

\* C10: once the caller has disconnected, and until the caller connects or
\* sends again, no step creates a WebSocket and no reconnect timer is left
\* or added.
C10_CallerDisconnectWins ==
  [][(callerOff /\ callerOff') =>
       /\ \A i \in 1..Len(sockets') :
            sockets'[i].state = "connecting"
              => i <= Len(sockets) /\ sockets[i].state = "connecting"
       /\ timers' = {}]_vars

(***************************************************************************)
(* Properties of the reconnect supervisor (SpecWS, SpecWSFair).            *)
(***************************************************************************)
AuthToast     == "Authentication failed. Please sign in again."
ExhaustedToast == "Failed to connect to chat. Please refresh the page."

Count(seq, x) == Cardinality({k \in 1..Len(seq) : seq[k] = x})

\* A connection is open.
Connected == \E i \in 1..Len(sockets) : sockets[i].state = "open"

\* No connection attempt is running or pending: no socket is connecting,
\* open or closing, no reconnect timer is set, no token refresh is awaited.
GivenUp ==
  /\ \A i \in 1..Len(sockets) : sockets[i].state = "closed"
  /\ timers = {}
  /\ refreshing = {}

\* The caller has acted on the hook since its mount.
CallerActed == calls > 0 \/ ~mounted

\* C11: as long as the caller does not act, whatever the closure codes and
\* the outcomes of the token refreshes, the supervisor always comes again to
\* hold an open connection or to have stopped its connection attempts; it
\* never goes on reconnecting for ever.
C11_SupervisorSettles == []<>(Connected \/ GivenUp \/ CallerActed)

\* A step creates a WebSocket.
Created ==
  \E i \in 1..Len(sockets') :
    /\ sockets'[i].state = "connecting"
    /\ i > Len(sockets) \/ sockets[i].state # "connecting"

\* C12: between two opens at most one token refresh is started for closures
\* with code 1006 or 1008, and a refresh that succeeds reconnects at once,
\* with no timer and with the attempt counter at zero.
C12_OneRefreshCycle ==
  /\ [](cycles <= 1)
  /\ [][\A i \in refreshing :
          RefreshDone(i, TRUE)
            => Created /\ timers' = timers /\ reconnectAttempts' = 0]_vars

\* C13: a token refresh that fails raises the authentication notification and
\* neither sets a timer nor creates a socket; from then on, as long as the
\* caller does not act, no timer is set and no socket is created.
C13_AuthFailureGivesUp ==
  [][/\ \A i \in refreshing :
          RefreshDone(i, FALSE)
            => /\ toasts' = Append(toasts, AuthToast)
               /\ timers' = timers
               /\ ~Created
     /\ (authFailed /\ authFailed') => (~Created /\ timers' \subseteq timers)]_vars

\* A closure that the handler treats as transient: its code is not 1000 and
\* it does not start a token refresh.
Transient(code) ==
  /\ code # 1000
  /\ ~(code \in {1006, 1008} /\ HasRefreshToken /\ reconnectAttempts = 0)

\* The timers a step sets.
Scheduled == timers' \ timers

\* C14: a transient closure with the counter below 5 sets one reconnect timer
\* and counts it, so that from 0 exactly 5 attempts are scheduled; a transient
\* closure with the counter at 5 sets no timer and raises the connectivity
\* notification.
C14_FiveAttempts ==
  /\ [](reconnectAttempts \in 0..5)
  /\ [][\A i \in 1..Len(sockets), code \in CloseCodes :
          (SocketClose(i, code) /\ Transient(code))
            => IF reconnectAttempts < 5
               THEN /\ reconnectAttempts' = reconnectAttempts + 1
                    /\ Cardinality(Scheduled) = 1
                    /\ toasts' = toasts
               ELSE /\ reconnectAttempts' = reconnectAttempts
                    /\ timers' = timers
                    /\ toasts' = Append(toasts, ExhaustedToast)]_vars

C14_Witness ==
  /\ reconnectAttempts = 5
  /\ timers = {}
  /\ Count(toasts, ExhaustedToast) = 1

BackoffDelays == <<2000, 4000, 8000, 16000, 30000>>

\* C15: the timer set for the k-th consecutive transient closure, k = 1..5,
\* has the delay 2000, 4000, 8000, 16000, 30000: never above 30000 and never
\* below the delay before it.
C15_BackoffDelays ==
  /\ [](\A t \in timers : t.delay <= 30000)
  /\ [][\A t \in Scheduled :
          /\ reconnectAttempts' \in 1..5
          /\ t.delay = BackoffDelays[reconnectAttempts']
          /\ \A k \in 1..(reconnectAttempts' - 1) : BackoffDelays[k] <= t.delay]_vars

C15_Witness == \E t \in timers : t.delay = 30000

\* C16: every open event sets the attempt counter to zero, and a transient
\* closure met with the counter at zero sets the first delay, 2000 ms.
C16_OpenResetsCounter ==
  [][/\ \A i \in 1..Len(sockets) : SocketOpen(i) => reconnectAttempts' = 0
     /\ \A i \in 1..Len(sockets), code \in CloseCodes :
          (SocketClose(i, code) /\ Transient(code) /\ reconnectAttempts = 0)
            => /\ reconnectAttempts' = 1
               /\ \A t \in Scheduled : t.delay = 2000]_vars

\* A socket has opened after a reconnect timer had been set.
C16_Witness == Connected /\ reconnectAttempts = 0 /\ reconnectTimer # 0

\* C17: a closure with code 1000 sets no reconnect timer, starts no token
\* refresh and leaves the attempt counter as it is, whatever its value.
C17_NormalClosureTerminal ==
  [][\A i \in 1..Len(sockets) :
       SocketClose(i, 1000)
         => /\ timers' = timers
            /\ reconnectTimer' = reconnectTimer
            /\ refreshing' = refreshing
            /\ reconnectAttempts' = reconnectAttempts]_vars

\* An anonymous user's hook, left alone by its caller, has no socket left, no
\* timer and no notification: its last socket had opened and was closed with
\* code 1000, since any other code sets a timer or raises a notification.
C17_Witness ==
  /\ user = "anonymous"
  /\ mounted /\ calls = 0
  /\ sockets # <<>>
  /\ \A i \in 1..Len(sockets) : sockets[i].state = "closed"
  /\ timers = {}
  /\ toasts = <<>>

\* C18: a closure that uses up the retry budget and a token refresh that
\* fails each raise exactly one notification; every other closure, a closure
\* with code 1000 among them, and every other step of the supervisor raise
\* none.
C18_OneNotificationPerFailure ==
  [][/\ \A i \in 1..Len(sockets), code \in CloseCodes :
          SocketClose(i, code)
            => IF Transient(code) /\ reconnectAttempts >= 5
               THEN toasts' = Append(toasts, ExhaustedToast)
               ELSE toasts' = toasts
     /\ \A i \in refreshing :
          /\ RefreshDone(i, FALSE) => toasts' = Append(toasts, AuthToast)
          /\ RefreshDone(i, TRUE) => toasts' = toasts
     /\ \A i \in 1..Len(sockets) : SocketOpen(i) => toasts' = toasts
     /\ \A t \in timers : TimerFire(t) => toasts' = toasts]_vars

(***************************************************************************)
(* Properties of the socket events and the store (SpecEvents).             *)
(***************************************************************************)
IsPrefix(s, t) == Len(s) <= Len(t) /\ SubSeq(t, 1, Len(s)) = s

\* C19: a session_state event processed while the store holds a message of
\* the session leaves messages as it is.
C19_SnapshotOnlyWhenEmpty ==
  [][\A i \in 1..Len(sockets), msgs \in Snapshots :
       (OnSessionState(i, msgs) /\ Msgs(Sess) # <<>>)
         => messages' = messages]_vars

\* C20: in every step the list of messages of the session before the step is
\* a prefix of the list after it.
C20_AppendOnly ==
  [][IsPrefix(Msgs(Sess), Lookup(messages', Sess, <<>>))]_vars

(***************************************************************************)
(* Properties of the transcript and its buffers.                           *)
(***************************************************************************)
\* The message ids of the session's finalized messages, in order.
MsgIds(sessionId) == [i \in 1..Len(Msgs(sessionId)) |-> Msgs(sessionId)[i].id]

\* C21: no two entries of messages[sessionId] carry the same message id.
C21_UniqueMessageIds ==
  \A i, j \in 1..Len(Msgs(Sess)) :
    MsgIds(Sess)[i] = MsgIds(Sess)[j] => i = j

\* The assistant message ids of the turn in flight: one in direct mode, two
\* in compare mode.
Requested ==
  {ids.aiMessageIdA} \cup (IF ids.aiMessageIdB # 0 THEN {ids.aiMessageIdB} ELSE {})

TagOf(id) == IF id = ids.aiMessageIdA THEN "a" ELSE "b"

\* A completion line of the turn in flight has been processed.
SomeCompletionSeen ==
  \E n \in 1..Len(seen) : StartsWith(seen[n], PrefAd) \/ StartsWith(seen[n], PrefBd)

\* C22: while a turn is in flight and no completion line of it has been
\* processed, the buffers of the session are exactly those of the turn's
\* participants, each with its own tag, whatever the turns before it.
C22_OpenBuffersAreTurnParticipants ==
  (pc # "idle" /\ ~SomeCompletionSeen)
    => /\ DOMAIN Bufs(Sess) = Requested
       /\ \A id \in Requested : Bufs(Sess)[id].participant = TagOf(id)

CompareFailToast == "Failed to send message to both models"

\* A step in which streamComparison leaves its read loop without throwing:
\* onMessageSent is called and the finally block re-enables the input.
TurnClosed ==
  /\ pc = "read"
  /\ pc' = "idle"
  /\ Count(toasts', CompareFailToast) = Count(toasts, CompareFailToast)

\* C23: compare mode: the read loop is left, with onMessageSent called and
\* the input enabled again, only when both participants have been completed,
\* by a stop or by an error completion.
C23_ClosedOnlyWhenBothResolved ==
  [][TurnClosed => \A p \in {"a", "b"} : modelStatus'[p].complete]_vars

(***************************************************************************)
(* Properties of the change of identity (SpecIdentity).                    *)
(***************************************************************************)
\* C24: a change of user met with an open socket closes that socket and
\* leaves exactly one socket connecting; from then on the close event of a
\* socket the hook has closed starts no token refresh and sets no timer, and
\* at no time are two sockets connecting or open.
C24_IdentityChangeReconnectsOnce ==
  /\ [](rebound => Cardinality(Live) <= 1)
  /\ [][(UserChange /\ Established)
          => /\ sockets'[wsCurrent].state = "closing"
             /\ Cardinality({i \in 1..Len(sockets') :
                               sockets'[i].state = "connecting"}) = 1]_vars
  /\ [][\A i \in 1..Len(sockets), code \in CloseCodes :
          (rebound /\ SocketClose(i, code) /\ sockets[i].state = "closing")
            => /\ refreshing' = refreshing
               /\ timers' = timers]_vars

(***************************************************************************)
(* Properties of the escaping (SpecEscape).                                *)
(***************************************************************************)
\* C25: when the only line processed in a turn is the content line carrying
\* escape(s), the turn's buffer holds s: unescapeChunk(escape(s)) = s for
\* every text s of backslashes, newlines and letters.
C25_EscapeRoundTrip ==
  seen = <<Frame(PrefA0, escape(plain))>>
    => /\ ids.aiMessageIdA \in DOMAIN Bufs(Sess)
       /\ Bufs(Sess)[ids.aiMessageIdA].content = plain

(***************************************************************************)
(* Properties of the stop action (SpecStop).                               *)
(***************************************************************************)
\* A step that aborts the turn in flight: the turn is over, none of its
\* buffers is left, and no message has been added.
AbortsTurn ==
  /\ pc' = "idle"
  /\ ~isStreaming'
  /\ \A id \in Requested : id \notin DOMAIN Lookup(streamingMessages', Sess, NoKeys)
  /\ messages' = messages

\* C26: while a turn streams, some step the user can cause aborts it: the
\* turn's buffers are removed without their text being added to
\* messages[sessionId], and the stream function ends.
C26_StopAbortsTurn ==
  isStreaming => ENABLED (NextStop /\ AbortsTurn)

(***************************************************************************)
(* Properties of the fragmentation (SpecFragments).                        *)
(***************************************************************************)
\* The response body as one text, every line with its terminator.
WholeText == Concat([i \in 1..Len(response) |-> response[i] \o <<NL>>])

\* The turn is over: the read loop has been left.
TurnOver == turns = 1 /\ pc = "idle"

\* C27: however the response body is cut into fragments, the lines the read
\* loop applies are those it applies when the body arrives as one fragment:
\* every line of the body, each once and in order.
C27_FragmentationIndependent ==
  TurnOver => seen = CompleteLines(WholeText)

(***************************************************************************)
(* Properties of the order of the transcript (SpecSwitch).                 *)
(***************************************************************************)
\* C28: the ids of a turn are drawn at its submit, so a later turn has the
\* greater ids: no finalized assistant message stands after the user
\* message of a later turn.
C28_FinalizedAfterOwnTurn ==
  \A i, j \in 1..Len(Msgs(Sess)) :
    (i < j /\ Msgs(Sess)[i].role = "user" /\ Msgs(Sess)[j].role = "assistant")
      => Msgs(Sess)[i].id < Msgs(Sess)[j].id

(***************************************************************************)
(* Properties of the chunk application (SpecChunks).                       *)
(***************************************************************************)
BufsNext == Lookup(streamingMessages', Sess, NoKeys)

\* C29: a step that keeps a buffer open only appends to its text: the text
\* before is a prefix of the text after, and the participant tag and the
\* completion flag are the same before and after, for content lines of the
\* HTTP stream and for message_chunk events of the socket.
C29_ChunkOnlyAppends ==
  [][\A id \in (DOMAIN Bufs(Sess)) \cap (DOMAIN BufsNext) :
       /\ IsPrefix(Bufs(Sess)[id].content, BufsNext[id].content)
       /\ BufsNext[id].participant = Bufs(Sess)[id].participant
       /\ BufsNext[id].isComplete = Bufs(Sess)[id].isComplete]_vars

(***************************************************************************)
(* Properties of the merged view (SpecDirect).                             *)
(***************************************************************************)
\* The ids MessageList renders: those of the finalized messages in order,
\* then those of the open buffers.
ViewIds == Range(MsgIds(Sess)) \cup DOMAIN Bufs(Sess)

\* C30: no id is both the id of an entry of messages[sessionId] and a key of
\* streamingMessages[sessionId].
C30_ViewWithoutDuplicates ==
  \A id \in ViewIds : ~(Entries(Sess, id) # {} /\ id \in DOMAIN Bufs(Sess))

(***************************************************************************)
(* Properties of a closure met with an open buffer (SpecOutage).           *)
(***************************************************************************)
\* The hook left to itself while a direct-mode turn is in flight: its
\* sockets open and close, and the open ones receive message_chunk and
\* message_complete events for the open buffers.
NextOutage ==
  \/ NextSupervisor
  \/ HandleSubmit(Hello)
  \/ \E i \in 1..Len(sockets), id \in DOMAIN Bufs(Sess) : OnMessageChunk(i, id, Hi)
  \/ \E i \in 1..Len(sockets), id \in DOMAIN Bufs(Sess) : OnMessageComplete(i, id)

SpecOutage == InitWS /\ [][NextOutage]_vars

AdMalformed == PrefAd \o <<"{">>

MalformedLines == {Frame(PrefA0, Hi), AdMalformed, AdStop}

\* Direct mode with a server that may send a completion line whose body is
\* malformed.
NextMalformed ==
  \/ HandleSubmit(Hello)
  \/ FetchOk
  \/ \E lines \in Fragments(MalformedLines), split \in BOOLEAN :
       DirectRead(lines, split)
  \/ DirectReadRest
  \/ DirectReadDone

SpecMalformed == Init /\ [][NextMalformed]_vars

\* C32: a step in which the reader processes a completion line with a
\* malformed body, and no other line, leaves messages, streamingMessages and
\* the notifications as they were, and the reader goes on reading.
C32_MalformedCompletionDropped ==
  [][seen' = Append(seen, AdMalformed)
       => /\ UNCHANGED <<messages, streamingMessages, toasts>>
          /\ pc' = "read"]_vars

(***************************************************************************)
(* Properties of the unrecognized lines and events (SpecOther).            *)
(***************************************************************************)
\* A line with a prefix no reader names: x0:"hi"
OtherLine == Frame(<<"x", "0", ":">>, Hi)

OtherDirectLines  == {Frame(PrefA0, Hi), OtherLine, AdStop}
OtherCompareLines == {Frame(PrefB0, Hi), OtherLine, AdStop, BdStop}

\* The turn in flight is a compare turn.
CompareTurn == ids.aiMessageIdB # 0

\* The first turn of a session in direct mode or in compare mode, with the
\* hook's socket open beside the HTTP stream: the server may send lines with
\* a prefix the readers do not name and events with a type the hook does not
\* name.
NextOther ==
  \/ EffectMount
  \/ \E i \in 1..Len(sockets) : SocketOpen(i)
  \/ (turns = 0 /\ HandleSubmit(Hello))
  \/ (turns = 0 /\ CompareSubmit(Hello))
  \/ FetchOk
  \/ \E lines \in Fragments(OtherDirectLines), split \in BOOLEAN :
       ~CompareTurn /\ DirectRead(lines, split)
  \/ (~CompareTurn /\ DirectReadRest)
  \/ (~CompareTurn /\ DirectReadDone)
  \/ \E lines \in Fragments(OtherCompareLines), split \in BOOLEAN :
       /\ CompareTurn
       /\ emitted + Len(lines) <= MaxLines
       /\ CompareRead([lines |-> lines, sv |-> srv], split)
  \/ (CompareTurn /\ CompareReadRest)
  \/ (CompareTurn /\ CompareReadDone)
  \/ \E i \in 1..Len(sockets) : OnOtherEvent(i)
  \/ \E i \in 1..Len(sockets), id \in DOMAIN Bufs(Sess) : OnMessageChunk(i, id, Hi)

SpecOther == Init /\ [][NextOther]_vars

Recognized(line) == line # OtherLine

\* The lines a step of the reader has iterated over.
NewLines == SubSeq(seen', Len(seen) + 1, Len(seen'))

\* C33: a step of a reader leaves the store, the completion status and the
\* notifications as its lines without those of unrecognized prefix leave
\* them, so that such a line changes nothing and the lines after it are
\* applied; a socket event of unrecognized type leaves messages and
\* streamingMessages as they were.
C33_UnrecognizedIgnored ==
  [][/\ (pc = "read" /\ IsPrefix(seen, seen') /\ wsEvents' = wsEvents)
          => IF CompareTurn
             THEN LET cs0 == [st |-> Store, modelStatus |-> modelStatus,
                              toasts |-> toasts]
                      cs  == CompareLines(cs0, Sess, ids,
                                          SelectSeq(NewLines, Recognized))
                  IN  /\ messages' = cs.st.messages
                      /\ streamingMessages' = cs.st.streamingMessages
                      /\ modelStatus' = cs.modelStatus
                      /\ toasts' = cs.toasts
             ELSE LET st == DirectLines(Store, Sess, ids.aiMessageIdA,
                                        SelectSeq(NewLines, Recognized))
                  IN  /\ messages' = st.messages
                      /\ streamingMessages' = st.streamingMessages
     /\ \A i \in 1..Len(sockets) :
          OnOtherEvent(i) => UNCHANGED <<messages, streamingMessages>>]_vars

\* An unrecognized line came first and the content line after it was
\* applied, and of two socket events one was a chunk.
C33_Witness ==
  /\ seen = <<OtherLine, Frame(PrefA0, Hi)>>
  /\ wsEvents = 2
  /\ ids.aiMessageIdA \in DOMAIN Bufs(Sess)
  /\ Bufs(Sess)[ids.aiMessageIdA].content = Hi \o Hi

(***************************************************************************)
(* Properties of the end of a turn (SpecDirect).                           *)
(***************************************************************************)
\* C34: whenever no turn is in flight (the stream function has returned or
\* thrown and the input is enabled), streamingMessages[sessionId] holds no
\* buffer.
C34_NoBufferBetweenTurns ==
  (pc = "idle" /\ ~isStreaming) => DOMAIN Bufs(Sess) = {}

(***************************************************************************)
(* Properties of the isConnected flag (SpecIdentity).                      *)
(***************************************************************************)
\* No socket event is pending: every socket is open or closed, and no close
\* handler awaits a token refresh.
Quiescent ==
  /\ \A i \in 1..Len(sockets) : sockets[i].state \in {"open", "closed"}
  /\ refreshing = {}

\* ws.current is an open socket.
CurrentOpen == wsCurrent # 0 /\ sockets[wsCurrent].state = "open"

\* C35: when no socket event is pending, isConnected is true exactly when
\* ws.current is an open socket.
C35_IsConnectedAgrees ==
  Quiescent => (isConnected <=> CurrentOpen)

(***************************************************************************)
(* Properties of the sessions of the store (SpecSessions).                 *)
(***************************************************************************)
\* The components of session X dispatch to the store with their own session
\* id: the input adds a message, a reader or the hook updates a buffer, the
\* hook applies a snapshot.
DispatchAddMessage(X, message) ==
  /\ Len(Msgs(X)) < MaxCompareTurns
  /\ messages' = addMessage(Store, X, message).messages
  /\ UNCHANGED <<streamingMessages, activeSession, streamVars, wsVars,
                 background, plain, response, clientVars>>

DispatchUpdate(X, messageId, chunk, isComplete, participant) ==
  /\ Len(Msgs(X)) <= MaxCompareTurns
  /\ Len(Lookup(Bufs(X), messageId, [content |-> <<>>]).content)
       < Len(chunk) * MaxCompareTurns
  /\ LET st == updateStreamingMessage(Store, X, messageId, chunk, isComplete,
                                      participant)
     IN  /\ messages' = st.messages
         /\ streamingMessages' = st.streamingMessages
  /\ UNCHANGED <<activeSession, streamVars, wsVars, background, plain, response, clientVars>>

DispatchSetSessionState(X, msgs) ==
  /\ Msgs(X) = <<>>
  /\ messages' = setSessionState(Store, X, msgs).messages
  /\ UNCHANGED <<streamingMessages, activeSession, streamVars, wsVars,
                 background, plain, response, clientVars>>

\* The first turn of a direct-mode session with a user who selects sessions
\* in the sidebar, beside the dispatches of the other session's components.
NextSessions ==
  \/ \E s \in Sessions : SelectSession(s)
  \/ (turns = 0 /\ SubmitActive(Hello))
  \/ FetchOk
  \/ \E lines \in SwitchLines : DirectRead(lines, FALSE)
  \/ DirectReadDone
  \/ BackgroundFetchOk
  \/ \E lines \in SwitchLines : BackgroundRead(lines)
  \/ BackgroundDone
  \/ DispatchAddMessage(OtherSess, UserMessage(1, Hi))
  \/ \E isComplete \in BOOLEAN, p \in {"a", "b"} :
       DispatchUpdate(OtherSess, 2, Hi, isComplete, p)
  \/ \E X \in Sessions, msgs \in Snapshots : DispatchSetSessionState(X, msgs)

SpecSessions == Init /\ [][NextSessions]_vars

\* Session Y's part of the store is the same before and after the step.
SessionUnchanged(Y) ==
  /\ Lookup(messages', Y, <<>>) = Msgs(Y)
  /\ Lookup(streamingMessages', Y, NoKeys) = Bufs(Y)
  /\ (Y \in DOMAIN messages') = (Y \in DOMAIN messages)
  /\ (Y \in DOMAIN streamingMessages') = (Y \in DOMAIN streamingMessages)

Others(X) == Sessions \ {X}

\* A step of the stream function of session Sess, mounted or left running:
\* its submit, its reads.
StreamStep ==
  \/ turns' # turns
  \/ emitted' # emitted
  \/ seen' # seen
  \/ background' # background

\* C36: a dispatch of addMessage, updateStreamingMessage or setSessionState
\* for session X leaves the messages and the buffers of every other session
\* as they were; selecting a session changes neither messages nor
\* streamingMessages; and every step of a stream of one session, also after
\* the user has selected another session, leaves the other session's
\* messages and buffers as they were.
C36_SessionsIsolated ==
  [][/\ DispatchAddMessage(OtherSess, UserMessage(1, Hi))
          => \A Y \in Others(OtherSess) : SessionUnchanged(Y)
     /\ \A isComplete \in BOOLEAN, p \in {"a", "b"} :
          DispatchUpdate(OtherSess, 2, Hi, isComplete, p)
            => \A Y \in Others(OtherSess) : SessionUnchanged(Y)
     /\ \A X \in Sessions, msgs \in Snapshots :
          DispatchSetSessionState(X, msgs)
            => /\ \A Y \in Others(X) : SessionUnchanged(Y)
               /\ streamingMessages' = streamingMessages
     /\ \A s \in Sessions :
          SelectSession(s) => UNCHANGED <<messages, streamingMessages>>
     /\ StreamStep => \A Y \in Others(Sess) : SessionUnchanged(Y)]_vars

\* The other session is active and holds a message and a buffer of its own,
\* and the stream left running has put its finalized message into its own
\* session.
C36_Witness ==
  /\ activeSession = OtherSess
  /\ Len(Msgs(OtherSess)) = 1
  /\ DOMAIN Bufs(OtherSess) # {}
  /\ background.phase = "read"
  /\ \E i \in 1..Len(Msgs(Sess)) :
       Msgs(Sess)[i] = AssistantMessage(background.aiMessageId, Hi, "a")

(***************************************************************************)
(* Properties of the HTTP client's token refresh (SpecClientFair).         *)
(***************************************************************************)
\* The responses and the outcomes of the refresh requests.
NextClientSettle ==
  \/ \E r \in Requests, code \in StatusCodes : ClientResponse(r, code)
  \/ \E r \in Requests : ClientRefreshOk(r)
  \/ \E r \in Requests : ClientRefreshFail(r)

NextClient ==
  \/ \E r \in Requests : ClientSend(r)
  \/ NextClientSettle

SpecClient == InitWS /\ [][NextClient]_vars

\* Every response arrives and every refresh request settles.
SpecClientFair == SpecClient /\ WF_vars(NextClientSettle)

\* The requests whose interceptor awaits the refresh request it started.
Refreshers == {r \in Requests : requests[r].status = "refreshing"}

\* C37: at most one refresh request is in flight at a time, isRefreshing is
\* true exactly while one is, and every request that waits as a subscriber
\* of a refresh is eventually sent again or rejected, also when the refresh
\* fails.
C37_SingleFlightRefresh ==
  /\ [](Cardinality(Refreshers) <= 1)
  /\ [](isRefreshing <=> Refreshers # {})
  /\ \A r \in Requests :
       (requests[r].status = "queued")
         ~> (requests[r].status \in {"sent", "resolved", "rejected"})

(***************************************************************************)
(* Properties of the attempt counter and the timer (SpecWS).               *)
(***************************************************************************)
\* C38: the attempt counter is within 0..5, and while a reconnect timer is
\* pending the counter is within 1..5.
C38_CounterAndTimer ==
  /\ reconnectAttempts \in 0..maxReconnectAttempts
  /\ timers # {} => reconnectAttempts \in 1..maxReconnectAttempts

====
